---- MODULE Spec2Model ----
(***************************************************************************)
(* Model of src/main.py: a wrapper that registers SIGINT/SIGTERM handlers, *)
(* prints a banner, changes into its own directory, spawns `npm run dev`   *)
(* with stdout+stderr merged into one line-buffered text pipe, relays the  *)
(* pipe line by line with print(), waits for the child and exits with the  *)
(* child's return code.                                                    *)
(*                                                                         *)
(* The supervisor is one thread.  pc is the statement it executes next;    *)
(* hpc is the position inside signal_handler when a handler is running on  *)
(* top of the interrupted statement (CPython runs handlers on the main     *)
(* thread between bytecodes, so the interrupted code does not advance      *)
(* while the handler runs).  The child process and the operating system    *)
(* (signal delivery) are the environment.                                  *)
(*                                                                         *)
(* print() writes to sys.stdout, which CPython line-buffers when it is a   *)
(* terminal and block-buffers otherwise; buf is the text held in that      *)
(* user-space buffer and visible is what has reached file descriptor 1.    *)
(***************************************************************************)
EXTENDS FiniteSets, Integers, Sequences, TLC

\* ---------------------------------------------------------------- bounds
MaxLines == 2       \* lines the child writes at most
MaxSignals == 2     \* signals delivered to the supervisor at most
MaxCode == 2        \* child exit codes range over 0..MaxCode

\* ------------------------------------------------------ program constants
SIGINT == 2
SIGTERM == 15

Signals == {SIGINT, SIGTERM}
ChildCodes == 0..MaxCode

VARIABLES
    pc,          \* next statement of the main flow
    hpc,         \* position inside signal_handler ("none" when not running)
    handlers,    \* signals for which signal_handler is registered
    isTty,       \* whether the supervisor's stdout is a terminal
    buf,         \* sys.stdout's user-space buffer
    visible,     \* what has been written to the supervisor's fd 1
    child,       \* "none", "running", "closed" (stream closed), "exited"
    produced,    \* number of lines the child has written
    pipe,        \* lines written by the child and not yet read
    cur,         \* the loop variable `line` (0: none in hand)
    childCode,   \* <<K>> once the child has exited with code K
    returncode,  \* process.returncode: <<>> is None
    retval,      \* value returned by main(): <<>> before it returns
    exc,         \* the exception raised inside the try block
    spawnCount,  \* number of successful Popen calls
    childSigs,   \* signals the child has received
    delivered,   \* signals delivered to the supervisor, in order
    outcome,     \* how the supervisor process ended
    exitStatus   \* <<n>> when the process ended through exit(n)

vars == <<pc, hpc, handlers, isTty, buf, visible, child, produced, pipe, cur,
          childCode, returncode, retval, exc, spawnCount, childSigs,
          delivered, outcome, exitStatus>>

\* ------------------------------------------------------------ output items
Item(k, t, n) == [kind |-> k, text |-> t, n |-> n]
Banner == Item("banner", "Starting Terminal Portfolio Development Server...", 0)
Notice == Item("notice", "Shutting down development server...", 0)
NpmNotFound == Item("npm_not_found", "Error: npm not found. Make sure Node.js is installed.", 0)
ErrorStarting(desc) == Item("error_starting", desc, 0)
Line(i) == Item("line", "", i)

NoExc == [type |-> "none", desc |-> "", origin |-> "none"]

\* Failures each step inside the try block can raise
ChdirFailures ==
    { [type |-> "FileNotFoundError", desc |-> "No such file or directory", origin |-> "chdir"],
      [type |-> "PermissionError", desc |-> "Permission denied", origin |-> "chdir"] }
SpawnFailures ==
    { [type |-> "FileNotFoundError", desc |-> "No such file or directory: 'npm'", origin |-> "spawn"],
      [type |-> "PermissionError", desc |-> "Permission denied: 'npm'", origin |-> "spawn"] }
ReadFailures ==
    { [type |-> "UnicodeDecodeError", desc |-> "invalid start byte", origin |-> "read"],
      [type |-> "OSError", desc |-> "Input/output error", origin |-> "read"] }

\* variant: the generic clause is tried before the FileNotFoundError clause
BranchGenericFirst(type) ==
    IF type \notin {"KeyboardInterrupt", "SystemExit", "GeneratorExit"} THEN "generic"
    ELSE IF type = "KeyboardInterrupt" THEN "interrupt"
    ELSE "propagate"

\* The except clauses of main, tried in source order
Branch(type) ==
    IF type = "FileNotFoundError" THEN "not_found"
    ELSE IF type = "KeyboardInterrupt" THEN "interrupt"
    ELSE IF type \notin {"SystemExit", "GeneratorExit"} THEN "generic"
    ELSE "propagate"

\* variant: the generic diagnostic leaves the failure description out
DiagnosticNoDesc(e) ==
    CASE e.type = "FileNotFoundError" -> NpmNotFound
      [] e.type = "KeyboardInterrupt" -> Notice
      [] OTHER -> ErrorStarting("")

Diagnostic(e) ==
    CASE Branch(e.type) = "not_found" -> NpmNotFound
      [] Branch(e.type) = "interrupt" -> Notice
      [] OTHER -> ErrorStarting(e.desc)

BranchCode(e) == IF Branch(e.type) = "interrupt" THEN 0 ELSE 1

\* the status the operating system records for sys.exit(n)
ExitStatus(n) == n % 256

\* ------------------------------------------------------------------ helpers
Terminated == pc = "done"
MainRuns == ~Terminated /\ hpc = "none"
Written == visible \o buf
ChildAlive == child \in {"running", "closed"}

\* print(item): append to sys.stdout; a terminal flushes at each newline, a
\* pipe or file only when the buffer fills up
Emit(item) ==
    \E full \in (IF isTty THEN {TRUE} ELSE BOOLEAN) :
        IF full
        THEN /\ visible' = visible \o buf \o <<item>>
             /\ buf' = <<>>
        ELSE /\ buf' = Append(buf, item)
             /\ visible' = visible

\* interpreter shutdown after SystemExit: flush stdout, exit with status
Finish(how, status) ==
    /\ pc' = "done"
    /\ hpc' = "none"
    /\ visible' = visible \o buf
    /\ buf' = <<>>
    /\ outcome' = how
    /\ exitStatus' = status

Init ==
    /\ pc = "start"
    /\ hpc = "none"
    /\ handlers = {}
    /\ isTty \in BOOLEAN
    /\ buf = <<>>
    /\ visible = <<>>
    /\ child = "none"
    /\ produced = 0
    /\ pipe = <<>>
    /\ cur = 0
    /\ childCode = <<>>
    /\ returncode = <<>>
    /\ retval = <<>>
    /\ exc = NoExc
    /\ spawnCount = 0
    /\ childSigs = {}
    /\ delivered = <<>>
    /\ outcome = "none"
    /\ exitStatus = <<>>

\* ------------------------------------------------------------ main flow
\* line 16
RegisterInt ==
    /\ MainRuns /\ pc = "start"
    /\ handlers' = handlers \cup {SIGINT}
    /\ pc' = "reg_term"
    /\ UNCHANGED <<hpc, isTty, buf, visible, child, produced, pipe, cur, childCode,
                   returncode, retval, exc, spawnCount, childSigs, delivered,
                   outcome, exitStatus>>

\* line 17
RegisterTerm ==
    /\ MainRuns /\ pc = "reg_term"
    /\ handlers' = handlers \cup {SIGTERM}
    /\ pc' = "banner"
    /\ UNCHANGED <<hpc, isTty, buf, visible, child, produced, pipe, cur, childCode,
                   returncode, retval, exc, spawnCount, childSigs, delivered,
                   outcome, exitStatus>>

\* line 19
PrintBanner ==
    /\ MainRuns /\ pc = "banner"
    /\ Emit(Banner)
    /\ pc' = "chdir"
    /\ UNCHANGED <<hpc, handlers, isTty, child, produced, pipe, cur, childCode,
                   returncode, retval, exc, spawnCount, childSigs, delivered,
                   outcome, exitStatus>>

\* line 23, success
Chdir ==
    /\ MainRuns /\ pc = "chdir"
    /\ pc' = "spawn"
    /\ UNCHANGED <<hpc, handlers, isTty, buf, visible, child, produced, pipe, cur,
                   childCode, returncode, retval, exc, spawnCount, childSigs,
                   delivered, outcome, exitStatus>>

\* line 23, os.chdir raises
ChdirFail ==
    /\ MainRuns /\ pc = "chdir"
    /\ \E e \in ChdirFailures : exc' = e
    /\ pc' = "except"
    /\ UNCHANGED <<hpc, handlers, isTty, buf, visible, child, produced, pipe, cur,
                   childCode, returncode, retval, spawnCount, childSigs,
                   delivered, outcome, exitStatus>>

\* lines 26-30, success
Spawn ==
    /\ MainRuns /\ pc = "spawn"
    /\ child' = "running"
    /\ spawnCount' = spawnCount + 1
    /\ pc' = "loop"
    /\ UNCHANGED <<hpc, handlers, isTty, buf, visible, produced, pipe, cur,
                   childCode, returncode, retval, exc, childSigs, delivered,
                   outcome, exitStatus>>

\* lines 26-30, Popen raises
SpawnFail ==
    /\ MainRuns /\ pc = "spawn"
    /\ \E e \in SpawnFailures : exc' = e
    /\ pc' = "except"
    /\ UNCHANGED <<hpc, handlers, isTty, buf, visible, child, produced, pipe, cur,
                   childCode, returncode, retval, spawnCount, childSigs,
                   delivered, outcome, exitStatus>>

\* line 33: the iterator yields the next line
ReadLine ==
    /\ MainRuns /\ pc = "loop"
    /\ pipe # <<>>
    /\ cur' = Head(pipe)
    /\ pipe' = Tail(pipe)
    /\ pc' = "print"
    /\ UNCHANGED <<hpc, handlers, isTty, buf, visible, child, produced, childCode,
                   returncode, retval, exc, spawnCount, childSigs, delivered,
                   outcome, exitStatus>>

\* line 33: reading the pipe raises
ReadFail ==
    /\ MainRuns /\ pc = "loop"
    /\ \E e \in ReadFailures : exc' = e
    /\ pc' = "except"
    /\ UNCHANGED <<hpc, handlers, isTty, buf, visible, child, produced, pipe, cur,
                   childCode, returncode, retval, spawnCount, childSigs,
                   delivered, outcome, exitStatus>>

\* line 34
PrintLine ==
    /\ MainRuns /\ pc = "print"
    /\ Emit(Line(cur))
    /\ pc' = "loop"
    /\ UNCHANGED <<hpc, handlers, isTty, child, produced, pipe, cur, childCode,
                   returncode, retval, exc, spawnCount, childSigs, delivered,
                   outcome, exitStatus>>

\* variant: the loop ends as soon as the child has closed its stream, with
\* lines still unread
EndOfStreamEarly ==
    /\ MainRuns /\ pc = "loop"
    /\ child \in {"closed", "exited"}
    /\ pc' = "wait"
    /\ UNCHANGED <<hpc, handlers, isTty, buf, visible, child, produced, pipe, cur,
                   childCode, returncode, retval, exc, spawnCount, childSigs,
                   delivered, outcome, exitStatus>>

\* line 33: end of file on the pipe ends the loop
EndOfStream ==
    /\ MainRuns /\ pc = "loop"
    /\ pipe = <<>>
    /\ child \in {"closed", "exited"}
    /\ pc' = "wait"
    /\ UNCHANGED <<hpc, handlers, isTty, buf, visible, child, produced, pipe, cur,
                   childCode, returncode, retval, exc, spawnCount, childSigs,
                   delivered, outcome, exitStatus>>

\* variant: wait() never returns
WaitHangs ==
    /\ MainRuns /\ pc = "wait"
    /\ child = "exited"
    /\ UNCHANGED vars

\* line 36: process.wait() returns once the child has terminated
Wait ==
    /\ MainRuns /\ pc = "wait"
    /\ child = "exited"
    /\ returncode' = childCode
    /\ pc' = "return"
    /\ UNCHANGED <<hpc, handlers, isTty, buf, visible, child, produced, pipe, cur,
                   childCode, retval, exc, spawnCount, childSigs, delivered,
                   outcome, exitStatus>>

\* variant: main returns 0 whatever the child's code
ReturnZero ==
    /\ MainRuns /\ pc = "return"
    /\ retval' = <<0>>
    /\ pc' = "exit"
    /\ UNCHANGED <<hpc, handlers, isTty, buf, visible, child, produced, pipe, cur,
                   childCode, returncode, exc, spawnCount, childSigs, delivered,
                   outcome, exitStatus>>

\* line 37
Return ==
    /\ MainRuns /\ pc = "return"
    /\ retval' = returncode
    /\ pc' = "exit"
    /\ UNCHANGED <<hpc, handlers, isTty, buf, visible, child, produced, pipe, cur,
                   childCode, returncode, exc, spawnCount, childSigs, delivered,
                   outcome, exitStatus>>

\* lines 40, 43, 46: the print of the matching except clause
ExceptPrint ==
    /\ MainRuns /\ pc = "except"
    /\ Emit(Diagnostic(exc))
    /\ pc' = "except_return"
    /\ UNCHANGED <<hpc, handlers, isTty, child, produced, pipe, cur, childCode,
                   returncode, retval, exc, spawnCount, childSigs, delivered,
                   outcome, exitStatus>>

\* lines 41, 44, 47: the return of the matching except clause
ExceptReturn ==
    /\ MainRuns /\ pc = "except_return"
    /\ retval' = <<BranchCode(exc)>>
    /\ pc' = "exit"
    /\ UNCHANGED <<hpc, handlers, isTty, buf, visible, child, produced, pipe, cur,
                   childCode, returncode, exc, spawnCount, childSigs, delivered,
                   outcome, exitStatus>>

\* line 50: sys.exit(main())
SysExit ==
    /\ MainRuns /\ pc = "exit"
    /\ Finish("returned", <<ExitStatus(retval[1])>>)
    /\ UNCHANGED <<handlers, isTty, child, produced, pipe, cur, childCode,
                   returncode, retval, exc, spawnCount, childSigs, delivered>>

\* ---------------------------------------------------------- signal_handler
\* variant: the handler prints nothing
HandlerPrintNothing ==
    /\ ~Terminated /\ hpc = "print"
    /\ hpc' = "exit"
    /\ UNCHANGED <<pc, handlers, isTty, buf, visible, child, produced, pipe, cur,
                   childCode, returncode, retval, exc, spawnCount, childSigs,
                   delivered, outcome, exitStatus>>

\* line 8
HandlerPrint ==
    /\ ~Terminated /\ hpc = "print"
    /\ Emit(Notice)
    /\ hpc' = "exit"
    /\ UNCHANGED <<pc, handlers, isTty, child, produced, pipe, cur, childCode,
                   returncode, retval, exc, spawnCount, childSigs, delivered,
                   outcome, exitStatus>>

\* variant: the handler returns instead of exiting, the main flow resumes
HandlerExitReturns ==
    /\ ~Terminated /\ hpc = "exit"
    /\ hpc' = "none"
    /\ UNCHANGED <<pc, handlers, isTty, buf, visible, child, produced, pipe, cur,
                   childCode, returncode, retval, exc, spawnCount, childSigs,
                   delivered, outcome, exitStatus>>

\* line 9: SystemExit is caught by none of main's except clauses
HandlerExit ==
    /\ ~Terminated /\ hpc = "exit"
    /\ Finish("handler", <<ExitStatus(0)>>)
    /\ UNCHANGED <<handlers, isTty, child, produced, pipe, cur, childCode,
                   returncode, retval, exc, spawnCount, childSigs, delivered>>

\* ------------------------------------------------------------- environment
\* The operating system delivers sig to the supervisor alone (kill <pid>) or
\* to its whole process group (Ctrl-C at the terminal), which includes the
\* child.  A registered signal_handler starts running; otherwise the default
\* disposition ends the process (SIGTERM: killed; SIGINT: KeyboardInterrupt,
\* raised outside the try block because line 16 precedes it, so the
\* interpreter ends the process through SIGINT).
Deliver ==
    /\ ~Terminated
    /\ Len(delivered) < MaxSignals
    /\ \E sig \in Signals, group \in BOOLEAN :
        /\ delivered' = Append(delivered,
               [sig |-> sig, at |-> pc, caught |-> sig \in handlers,
                childAlive |-> ChildAlive])
        /\ childSigs' = IF group /\ ChildAlive THEN childSigs \cup {sig} ELSE childSigs
        /\ IF sig \in handlers
           THEN /\ hpc' = "print"
                /\ UNCHANGED <<pc, buf, visible, outcome, exitStatus>>
           ELSE /\ pc' = "done"
                /\ hpc' = "none"
                /\ outcome' = "signal"
                /\ UNCHANGED <<buf, visible, exitStatus>>
    /\ UNCHANGED <<handlers, isTty, child, produced, pipe, cur, childCode,
                   returncode, retval, exc, spawnCount>>

\* the child writes its next line to the merged stream
ChildWrite ==
    /\ child = "running"
    /\ produced < MaxLines
    /\ produced' = produced + 1
    /\ pipe' = Append(pipe, produced + 1)
    /\ UNCHANGED <<pc, hpc, handlers, isTty, buf, visible, child, cur, childCode,
                   returncode, retval, exc, spawnCount, childSigs, delivered,
                   outcome, exitStatus>>

\* the child closes its output and keeps running
ChildClose ==
    /\ child = "running"
    /\ child' = "closed"
    /\ UNCHANGED <<pc, hpc, handlers, isTty, buf, visible, produced, pipe, cur,
                   childCode, returncode, retval, exc, spawnCount, childSigs,
                   delivered, outcome, exitStatus>>

\* the child exits with code K (which closes its end of the pipe)
ChildExit ==
    /\ ChildAlive
    /\ \E K \in ChildCodes : childCode' = <<K>>
    /\ child' = "exited"
    /\ UNCHANGED <<pc, hpc, handlers, isTty, buf, visible, produced, pipe, cur,
                   returncode, retval, exc, spawnCount, childSigs, delivered,
                   outcome, exitStatus>>

MainStep ==
    \/ RegisterInt \/ RegisterTerm \/ PrintBanner
    \/ Chdir \/ ChdirFail \/ Spawn \/ SpawnFail
    \/ ReadLine \/ ReadFail \/ PrintLine \/ EndOfStream
    \/ Wait \/ Return \/ ExceptPrint \/ ExceptReturn \/ SysExit

HandlerStep == HandlerPrint \/ HandlerExit

Next ==
    \/ RegisterInt \/ RegisterTerm \/ PrintBanner
    \/ Chdir \/ ChdirFail \/ Spawn \/ SpawnFail
    \/ ReadLine \/ ReadFail \/ PrintLine \/ EndOfStream
    \/ Wait \/ Return \/ ExceptPrint \/ ExceptReturn \/ SysExit
    \/ HandlerPrint \/ HandlerExit
    \/ Deliver \/ ChildWrite \/ ChildClose \/ ChildExit

Spec == Init /\ [][Next]_vars

\* The interpreter keeps executing the main thread, and the child is assumed
\* to terminate eventually.
LiveSpec ==
    Spec /\ WF_vars(MainStep) /\ WF_vars(HandlerStep) /\ WF_vars(ChildExit)

\* ------------------------------------------------------- derived notions
IsDiag(x) == x.kind \in {"npm_not_found", "error_starting"}
IsLine(x) == x.kind = "line"
IsNotice(x) == x.kind = "notice"
LinesOf(seq) == SelectSeq(seq, IsLine)
DiagsOf(seq) == SelectSeq(seq, IsDiag)
Has(seq, x) == \E i \in DOMAIN seq : seq[i] = x
ChildLines == [i \in 1..produced |-> Line(i)]
Returned == outcome = "returned"
NormalCompletion == Returned /\ exc = NoExc /\ delivered = <<>>
AfterLoop == {"wait", "return", "except", "except_return", "exit", "done"}
AfterDiag == {"except_return", "exit", "done"}

\* ------------------------------------------------------------------ C1
\* C1: on the normal-completion path (no signal, no failure) the supervisor's
\* exit code equals the child's exit code K, and main reaches its return
\* only after the child's stream has ended (pipe drained at end of file) and
\* the child has terminated.
C1_ExitCodeIsChildCode ==
    /\ (exc = NoExc /\ pc \in {"return", "exit", "done"} /\ outcome \in {"none", "returned"})
          => /\ child = "exited"
             /\ pipe = <<>>
             /\ returncode = childCode
    /\ NormalCompletion => exitStatus = childCode

C1_Witness == NormalCompletion /\ childCode = <<MaxCode>> /\ exitStatus = <<MaxCode>>

\* ------------------------------------------------------------------ C2
\* C2 (as stated): for a child that writes N lines and exits with code 0, the
\* supervisor's visible output is exactly those N lines, nothing added.
C2_ExactlyChildLines ==
    (NormalCompletion /\ childCode = <<0>>)
        => /\ visible = ChildLines
           /\ exitStatus = <<0>>

\* C2 (amended): the visible output is the start-up banner of line 19
\* followed by exactly the child's N lines, each once and in order, and the
\* exit code is 0.
C2_BannerThenChildLines ==
    (NormalCompletion /\ childCode = <<0>>)
        => /\ visible = <<Banner>> \o ChildLines
           /\ exitStatus = <<0>>

C2_Witness == NormalCompletion /\ childCode = <<0>> /\ produced >= 2 /\ Len(visible) >= 3

\* ------------------------------------------------------------------ C3
\* C3 (as stated): a SIGINT or SIGTERM delivered at any point of the
\* supervisor's lifetime ends it with the shutdown notice and status 0.
C3_AnySignalGracefulExit ==
    (Terminated /\ delivered # <<>>)
        => /\ outcome = "handler"
           /\ exitStatus = <<0>>
           /\ Has(visible, Notice)

\* C3 (amended): a signal delivered once its handler is registered (SIGINT
\* after line 16, SIGTERM after line 17) starts signal_handler, whatever the
\* main flow is doing (try block, except clause, after main returned); unless
\* a signal whose handler is not registered yet arrives first or meanwhile,
\* the supervisor then ends with the shutdown notice and status 0.
C3_CaughtSignalGracefulExit ==
    (delivered # <<>> /\ \A i \in DOMAIN delivered : delivered[i].caught)
        => /\ ~Terminated => hpc # "none"
           /\ Terminated => /\ outcome = "handler"
                            /\ exitStatus = <<0>>
                            /\ Has(visible, Notice)

C3_Witness ==
    /\ Terminated
    /\ \E i \in DOMAIN delivered :
          delivered[i].caught /\ delivered[i].at \in {"except_return", "exit"}
    /\ exitStatus = <<0>>

\* ------------------------------------------------------------------ C4
\* C4: when Popen cannot locate npm, the supervisor prints exactly one
\* diagnostic line (the npm-not-found one), has no child and relays nothing,
\* and, unless a signal handler takes over, exits with code 1 through
\* main's return value (no uncaught exception).
C4_NpmNotFound ==
    (exc.origin = "spawn" /\ exc.type = "FileNotFoundError")
        => /\ child = "none" /\ spawnCount = 0
           /\ LinesOf(Written) = <<>>
           /\ Len(DiagsOf(Written)) <= 1
           /\ pc \in AfterDiag /\ outcome # "handler" => DiagsOf(Written) = <<NpmNotFound>>
           /\ Terminated => outcome \in {"returned", "handler"}
           /\ Returned => /\ exitStatus = <<1>>
                          /\ DiagsOf(visible) = <<NpmNotFound>>

C4_Witness ==
    Returned /\ exc.origin = "spawn" /\ exc.type = "FileNotFoundError"
             /\ visible = <<Banner, NpmNotFound>>

\* ------------------------------------------------------------------ C5
\* C5: relaying is streaming: when the supervisor goes back to read the next
\* line (or to wait for the child), every line it has relayed so far has
\* reached its standard output; no relayed line is held back.
C5_Streaming ==
    pc \in {"loop", "wait"} => LinesOf(buf) = <<>>

\* ------------------------------------------------------------------ C6
\* C6: a signal delivered to the supervisor while its child is running has
\* been passed on to the child by the time the supervisor has exited.
C6_SignalForwarded ==
    Terminated =>
        \A i \in DOMAIN delivered :
            delivered[i].childAlive => delivered[i].sig \in childSigs

\* ------------------------------------------------------------------ C7
\* C7: a failure that is neither a missing executable nor an interruption
\* is caught: one diagnostic line carrying the failure's description is
\* printed, main returns 1, the child is not spawned again and no child line
\* is relayed after the diagnostic.
C7_UnknownFailure ==
    (exc.type \notin {"none", "FileNotFoundError", "KeyboardInterrupt"})
        => /\ pc \in {"except", "except_return", "exit", "done"}
           /\ spawnCount <= 1
           /\ Len(DiagsOf(Written)) <= 1
           /\ pc \in AfterDiag /\ outcome # "handler"
                 => DiagsOf(Written) = <<ErrorStarting(exc.desc)>>
           /\ \A i, j \in DOMAIN Written :
                 IsDiag(Written[i]) /\ i < j => ~IsLine(Written[j])
           /\ Returned => /\ exitStatus = <<1>>
                          /\ DiagsOf(visible) = <<ErrorStarting(exc.desc)>>

C7_Witness ==
    /\ Returned /\ exc.origin = "read"
    /\ Has(visible, Line(1))
    /\ Has(visible, ErrorStarting(exc.desc))
    /\ pipe # <<>>

\* ------------------------------------------------------------------ C8
\* C8: once the shutdown notice has been printed, no further child line is
\* written to the supervisor's standard output.
C8_NoRelayAfterNotice ==
    [][Has(Written, Notice) => LinesOf(Written') = LinesOf(Written)]_vars

C8_Witness == Terminated /\ Has(visible, Notice) /\ pipe # <<>> /\ child = "running"

\* ------------------------------------------------------------------ C9
\* C9: a failing chdir ends the run with exit code 1 and without a child,
\* and is not reported with the npm-not-found diagnostic.
C9_ChdirFailureNotNpmNotFound ==
    exc.origin = "chdir"
        => /\ child = "none"
           /\ Returned => exitStatus = <<1>>
           /\ ~Has(Written, NpmNotFound)

\* ------------------------------------------------------------------ C10
\* C10: provided the child eventually terminates, the supervisor eventually
\* exits; the child is spawned at most once, no line is relayed twice, and
\* the read loop is never re-entered once it has ended.
C10_Terminates ==
    /\ <>Terminated
    /\ [](spawnCount <= 1)
    /\ [](\A i, j \in DOMAIN Written :
             IsLine(Written[i]) /\ IsLine(Written[j]) /\ i # j => Written[i] # Written[j])
    /\ [][(pc \in AfterLoop) => (pc' \in AfterLoop)]_vars

C10_Witness ==
    Terminated /\ Returned /\ exc = NoExc /\ produced = MaxLines
               /\ LinesOf(visible) = ChildLines

====
